---------------------------- MODULE Spec2Model ----------------------------
(***************************************************************************)
(* Multi-sensor satellite processing pipeline:                             *)
(*   ingestion/Data_Ingestion.py         footprint pair selection          *)
(*   preprocessing/Sentinel-1_Processing.py   radar calibration, masking,  *)
(*                                        Lee filter, GLCM texture         *)
(*   preprocessing/Sentinel-2_Processing.py   NDVI, SCL resampling, mask   *)
(*   main.py                              orchestration of the scripts     *)
(*                                                                         *)
(* Each script is a state machine of its own; the module gives one         *)
(* specification per script (SpecSelect, SpecRadar and SpecTexture,        *)
(* SpecOptical, SpecMain).  The variables of the scripts a specification   *)
(* does not run stay at their idle values.                                 *)
(***************************************************************************)
EXTENDS Integers, Sequences, FiniteSets, TLC

VARIABLES
    \* ---- ingestion/Data_Ingestion.py ----
    ipc,            \* position of the script: "scan", "selected", "failed", "done"
    data_s1,        \* radar candidates (sequence of footprints)
    data_s2,        \* optical candidates (sequence of footprints)
    li,             \* index of the outer loop (for s1 in data_s1)
    lj,             \* index of the inner loop (for s2 in data_s2)
    overlap,        \* the module-level variable overlap (last computed score)
    best_overlap,   \* best score so far
    best_pair,      \* <<>> for None, <<i, j>> for (data_s1[i], data_s2[j])
    scanned,        \* history: the (i, j) combinations the loop body has run for
    \* ---- preprocessing/Sentinel-1_Processing.py ----
    rpc,            \* "read", "linear", "db", "masked", "lee", "textured"
    vh_window,      \* raw digital numbers, rows of columns
    sigma0_linear,  \* calibrated window
    sigma0_db_window, \* decibel window, masked in place
    lee_filtered,   \* Lee filter output
    contrast,       \* GLCM contrast
    \* ---- preprocessing/Sentinel-2_Processing.py ----
    opc,            \* "read", "scaled", "ndvi", "resampled", "masked"
    red, nir,       \* red and near-infrared windows
    scl,            \* scene classification window (half resolution)
    ndvi,           \* vegetation index
    scl_resampled,  \* classification resampled to ndvi's shape
    ndvi_masked,    \* cloud-masked index
    \* ---- main.py ----
    mpc,            \* position of main()
    proc,           \* per child script: [st, rc]
    reported,       \* the scripts whose failure main() has raised
    success         \* the scripts main() has printed as completed

ingestVars == <<ipc, data_s1, data_s2, li, lj, overlap, best_overlap, best_pair, scanned>>
radarVars == <<rpc, vh_window, sigma0_linear, sigma0_db_window, lee_filtered, contrast>>
opticalVars == <<opc, red, nir, scl, ndvi, scl_resampled, ndvi_masked>>
mainVars == <<mpc, proc, reported, success>>
vars == <<ingestVars, radarVars, opticalVars, mainVars>>

-----------------------------------------------------------------------------
(***************************************************************************)
(* Floating-point values.  A value is not-a-number or an exact rational    *)
(* num/den in lowest terms with den > 0.  The inputs of the model are      *)
(* chosen so that the float computations of the scripts are exact on them  *)
(* (or differ from the exact value by less than any threshold they are     *)
(* compared with).                                                         *)
(***************************************************************************)
NaN == [nan |-> TRUE, num |-> 0, den |-> 1]

Abs(n) == IF n < 0 THEN -n ELSE n

RECURSIVE GCD(_, _)
GCD(a, b) == IF b = 0 THEN a ELSE GCD(b, a % b)

\* n/d in lowest terms; 0/0 is NaN, as numpy's float division gives.
\* (x/0 with x # 0 would be +-inf; no computation below divides a nonzero
\* value by zero, so it is never produced.)
Rat(n, d) ==
    IF d = 0 THEN NaN
    ELSE LET g == GCD(Abs(n), Abs(d))
             s == IF d < 0 THEN -1 ELSE 1
         IN [nan |-> FALSE, num |-> s * (n \div g), den |-> s * (d \div g)]

IsNaN(x) == x.nan

RAdd(x, y) ==
    IF x.nan \/ y.nan THEN NaN
    ELSE LET g == GCD(x.den, y.den)
         IN Rat(x.num * (y.den \div g) + y.num * (x.den \div g), (x.den \div g) * y.den)

RNeg(x) == IF x.nan THEN NaN ELSE [nan |-> FALSE, num |-> -x.num, den |-> x.den]

RSub(x, y) == RAdd(x, RNeg(y))

RMul(x, y) ==
    IF x.nan \/ y.nan THEN NaN
    ELSE LET g1 == GCD(Abs(x.num), y.den)
             g2 == GCD(Abs(y.num), x.den)
         IN IF x.num = 0 \/ y.num = 0 THEN Rat(0, 1)
            ELSE Rat((x.num \div g1) * (y.num \div g2), (x.den \div g2) * (y.den \div g1))

RDiv(x, y) ==
    IF x.nan \/ y.nan THEN NaN
    ELSE IF y.num = 0 THEN NaN
    ELSE RMul(x, Rat(y.den, y.num))

\* Comparisons with NaN are false, as in IEEE arithmetic.
RLt(x, y) == ~x.nan /\ ~y.nan /\ x.num * y.den < y.num * x.den
RGt(x, y) == RLt(y, x)
RLe(x, y) == ~x.nan /\ ~y.nan /\ x.num * y.den <= y.num * x.den
REq(x, y) == ~x.nan /\ ~y.nan /\ x.num = y.num /\ x.den = y.den

Min2(a, b) == IF a < b THEN a ELSE b
Max2(a, b) == IF a > b THEN a ELSE b

-----------------------------------------------------------------------------
(***************************************************************************)
(* ingestion/Data_Ingestion.py: selection of the best-overlapping pair.    *)
(* A footprint is an axis-parallel rectangle [x1, y1, x2, y2] with         *)
(* x1 < x2 and y1 < y2 on integer coordinates, on which shapely's          *)
(* intersection and area are exact.                                        *)
(***************************************************************************)
MaxCand == 2

Box(x1, y1, x2, y2) == [x1 |-> x1, y1 |-> y1, x2 |-> x2, y2 |-> y2]

\* The catalogue's candidate footprints: two 10x10 squares overlapping on half
\* their area, a third touching the first along an edge, a far one, a small
\* one inside the first.
Footprints ==
    { Box(0, 0, 10, 10), Box(5, 0, 15, 10), Box(10, 0, 20, 10),
      Box(20, 20, 30, 30), Box(2, 2, 6, 6) }

Area(g) == (g.x2 - g.x1) * (g.y2 - g.y1)

\* geom_s1.intersection(geom_s2): empty when the rectangles are apart; a
\* point or a segment (not empty, area 0) when they only touch.
Intersection(a, b) ==
    LET x1 == Max2(a.x1, b.x1)
        y1 == Max2(a.y1, b.y1)
        x2 == Min2(a.x2, b.x2)
        y2 == Min2(a.y2, b.y2)
    IN IF x1 > x2 \/ y1 > y2
       THEN [is_empty |-> TRUE, area |-> 0]
       ELSE [is_empty |-> FALSE, area |-> (x2 - x1) * (y2 - y1)]

Hundred == 100

\* Mutant of line 133: the score normalised by the radar footprint's area.
OverlapPctByRadar(a, b) ==
    RMul(RDiv(Rat(Intersection(a, b).area, 1), Rat(Area(a), 1)), Rat(Hundred, 1))

\* line 133: (intersection.area / geom_s2.area) * 100
OverlapPct(a, b) ==
    RMul(RDiv(Rat(Intersection(a, b).area, 1), Rat(Area(b), 1)), Rat(Hundred, 1))

SeqsUpTo(S, n) == UNION { [1..k -> S] : k \in 0..n }

LoopDone == li > Len(data_s1) \/ Len(data_s2) = 0

IngestIdle ==
    /\ ipc = "idle"
    /\ data_s1 = <<>>
    /\ data_s2 = <<>>
    /\ li = 1
    /\ lj = 1
    /\ overlap = NaN
    /\ best_overlap = Rat(0, 1)
    /\ best_pair = <<>>
    /\ scanned = {}

\* lines 88, 112, 121, 122: the search results, best_pair = None, best_overlap = 0.
\* overlap is unbound until first assigned (NaN stands for unbound).
IngestInit ==
    /\ ipc = "scan"
    /\ data_s1 \in SeqsUpTo(Footprints, MaxCand)
    /\ data_s2 \in SeqsUpTo(Footprints, MaxCand)
    /\ li = 1
    /\ lj = 1
    /\ overlap = NaN
    /\ best_overlap = Rat(0, 1)
    /\ best_pair = <<>>
    /\ scanned = {}

\* Mutants of the comparison of line 135: "<" for ">", and ">=" for ">".
BetterLess(o, best) == RLt(o, best)
BetterOrEqual(o, best) == RLe(best, o)

\* line 135: if overlap > best_overlap
Better(o, best) == RGt(o, best)

\* lines 124-137: one run of the inner loop's body, for (data_s1[li], data_s2[lj]).
ScanPair ==
    /\ ipc = "scan"
    /\ ~LoopDone
    /\ LET geom_s1 == data_s1[li]
           geom_s2 == data_s2[lj]
           intersection == Intersection(geom_s1, geom_s2)
           o == OverlapPct(geom_s1, geom_s2)
       IN IF ~intersection.is_empty
          THEN /\ overlap' = o
               /\ IF Better(o, best_overlap)
                  THEN /\ best_overlap' = o
                       /\ best_pair' = <<li, lj>>
                  ELSE UNCHANGED <<best_overlap, best_pair>>
          ELSE UNCHANGED <<overlap, best_overlap, best_pair>>
    /\ scanned' = scanned \cup {<<li, lj>>}
    /\ IF lj < Len(data_s2)
       THEN /\ lj' = lj + 1
            /\ li' = li
       ELSE /\ lj' = 1
            /\ li' = li + 1
    /\ UNCHANGED <<ipc, data_s1, data_s2>>

\* lines 139-142: if best_pair is None: raise Exception(...)
CheckBestPair ==
    /\ ipc = "scan"
    /\ LoopDone
    /\ ipc' = IF best_pair = <<>> THEN "failed" ELSE "selected"
    /\ UNCHANGED <<data_s1, data_s2, li, lj, overlap, best_overlap, best_pair, scanned>>

\* lines 185-188: the two downloads (external), then the script ends.
Download ==
    /\ ipc = "selected"
    /\ ipc' = "done"
    /\ UNCHANGED <<data_s1, data_s2, li, lj, overlap, best_overlap, best_pair, scanned>>

IngestNext == ScanPair \/ CheckBestPair \/ Download

-----------------------------------------------------------------------------
(***************************************************************************)
(* preprocessing/Sentinel-1_Processing.py: calibration, decibel            *)
(* conversion, range masking, Lee filter, GLCM texture.                    *)
(* A window is a sequence of rows, each a sequence of values.  The model's *)
(* window stands for the 4000x4000 window of the script and, in the        *)
(* texture step, for the 200x200 patch cut from it.                        *)
(***************************************************************************)
MaxPixels == 4

\* Raw digital numbers: powers of ten (and 0), whose decibel value
\* 10*log10(dn/10000) is a whole number, so that every float of the script
\* is exact on them up to the 1e-10 guard.
RawSamples == {0, 1, 100, 10000, 100000}

Shapes == { sh \in (1..MaxPixels) \X (1..MaxPixels) : sh[1] * sh[2] <= MaxPixels }

WindowsOf(S) == UNION { [1..sh[1] -> [1..sh[2] -> S]] : sh \in Shapes }

\* The 5x5 window of digital number 10000 of the end-to-end scenario.
ScenarioWindow == [r \in 1..5 |-> [c \in 1..5 |-> 10000]]

NRows(w) == Len(w)
NCols(w) == Len(w[1])

MapWindow(w, F(_)) == [r \in 1..NRows(w) |-> [c \in 1..NCols(w) |-> F(w[r][c])]]

ScalingFactor == 10000

LogGuardExp == -10

MaskLow == -40

MaskHigh == 5

NanFill == -40

LeeSize == 5

RECURSIVE Log10Pow(_)
Log10Pow(n) == IF n <= 1 THEN 0 ELSE 1 + Log10Pow(n \div 10)

\* np.log10(x + 1e-10) for x = 0 or x a power of ten no smaller than 1e-4:
\* the guard decides the value at 0 and is below float32 resolution of the
\* result elsewhere (at x = 1e-4 it moves 10*log10 by 4e-6, which stays
\* on the same side of every threshold the value is compared with).
Log10Guarded(x) ==
    IF x.num = 0 THEN LogGuardExp ELSE Log10Pow(x.num) - Log10Pow(x.den)

\* line 104: vh_window / 10000.0
Linear(dn) == Rat(dn, ScalingFactor)

\* line 105: 10 * np.log10(sigma0_linear + 1e-10)
ToDb(x) == Rat(10 * Log10Guarded(x), 1)

\* Mutant of lines 107-108: the upper bound is not applied.
MaskDbLowOnly(v) == IF RLt(v, Rat(MaskLow, 1)) THEN NaN ELSE v

\* lines 107-108: sigma0_db_window[sigma0_db_window < -40] = np.nan, then
\* [... > 5] = np.nan.  A comparison with NaN is false.
MaskDb(v) ==
    IF RLt(v, Rat(MaskLow, 1)) THEN NaN
    ELSE IF RGt(v, Rat(MaskHigh, 1)) THEN NaN
    ELSE v

\* line 121: np.nan_to_num(sigma0_db_window, nan=-40)
NanToNum(v, fill) == IF IsNaN(v) THEN Rat(fill, 1) ELSE v

\* scipy.ndimage 'reflect' boundary (d c b a | a b c d | d c b a): the index
\* k (from 1) of an axis of length n that position k stands for.
Reflect(k, n) ==
    LET m == (k - 1) % (2 * n)
    IN IF m < n THEN m + 1 ELSE 2 * n - m

RECURSIVE RSumSeq(_)
RSumSeq(s) == IF s = <<>> THEN Rat(0, 1) ELSE RAdd(Head(s), RSumSeq(Tail(s)))

Half(size) == size \div 2

\* uniform_filter(w, size) at (r, c): the mean of the size x size box centred
\* there, boundary mode 'reflect'.
UniformFilterAt(w, size, r, c) ==
    LET h == Half(size)
        rowSum(dr) == RSumSeq([k \in 1..size |->
                         w[Reflect(r + dr, NRows(w))][Reflect(c + (k - 1 - h), NCols(w))]])
        total == RSumSeq([k \in 1..size |-> rowSum(k - 1 - h)])
    IN RDiv(total, Rat(size * size, 1))

UniformFilter(w, size) ==
    [r \in 1..NRows(w) |-> [c \in 1..NCols(w) |-> UniformFilterAt(w, size, r, c)]]

Flatten(w) == [k \in 1..(NRows(w) * NCols(w)) |->
                 w[((k - 1) \div NCols(w)) + 1][((k - 1) % NCols(w)) + 1]]

\* np.var(w): the mean of the squared deviations from the mean.
Var(w) ==
    LET f == Flatten(w)
        n == Rat(Len(f), 1)
        m == RDiv(RSumSeq(f), n)
        d == [k \in 1..Len(f) |-> RMul(RSub(f[k], m), RSub(f[k], m))]
    IN RDiv(RSumSeq(d), n)

\* line 129: mean + (variance / (variance + overall_variance)) * (temp - mean)
LeeValue(t, mean, variance, overall_variance) ==
    RAdd(mean, RMul(RDiv(variance, RAdd(variance, overall_variance)), RSub(t, mean)))

\* line 131: lee_filtered[np.isnan(sigma0_db_window)] = np.nan
Reimpose(v, src) == IF IsNaN(src) THEN NaN ELSE v

\* lines 121-131
LeeFilter(w) ==
    LET temp == MapWindow(w, LAMBDA v : NanToNum(v, NanFill))
        sq == MapWindow(temp, LAMBDA v : RMul(v, v))
        mean == UniformFilter(temp, LeeSize)
        mean_sq == UniformFilter(sq, LeeSize)
        overall_variance == Var(temp)
    IN [r \in 1..NRows(w) |-> [c \in 1..NCols(w) |->
          LET variance == RSub(mean_sq[r][c], RMul(mean[r][c], mean[r][c]))
          IN Reimpose(LeeValue(temp[r][c], mean[r][c], variance, overall_variance),
                      w[r][c])]]

NoWindow == <<>>

RadarIdle ==
    /\ rpc = "idle"
    /\ vh_window = NoWindow
    /\ sigma0_linear = NoWindow
    /\ sigma0_db_window = NoWindow
    /\ lee_filtered = NoWindow
    /\ contrast = NaN

\* lines 100-102: the window read from the VH measurement.
RadarInit ==
    /\ rpc = "read"
    /\ vh_window \in WindowsOf(RawSamples) \cup {ScenarioWindow}
    /\ sigma0_linear = NoWindow
    /\ sigma0_db_window = NoWindow
    /\ lee_filtered = NoWindow
    /\ contrast = NaN

\* line 104
Calibrate ==
    /\ rpc = "read"
    /\ sigma0_linear' = MapWindow(vh_window, Linear)
    /\ rpc' = "linear"
    /\ UNCHANGED <<vh_window, sigma0_db_window, lee_filtered, contrast>>

\* line 105
ConvertToDb ==
    /\ rpc = "linear"
    /\ sigma0_db_window' = MapWindow(sigma0_linear, ToDb)
    /\ rpc' = "db"
    /\ UNCHANGED <<vh_window, sigma0_linear, lee_filtered, contrast>>

\* lines 107-108
MaskRange ==
    /\ rpc = "db"
    /\ sigma0_db_window' = MapWindow(sigma0_db_window, MaskDb)
    /\ rpc' = "masked"
    /\ UNCHANGED <<vh_window, sigma0_linear, lee_filtered, contrast>>

\* lines 121-131
ApplyLee ==
    /\ rpc = "masked"
    /\ lee_filtered' = LeeFilter(sigma0_db_window)
    /\ rpc' = "lee"
    /\ UNCHANGED <<vh_window, sigma0_linear, sigma0_db_window, contrast>>

\* np.nanmin / np.nanmax: over the values that are not NaN; NaN (with a
\* RuntimeWarning, no exception) when there is none.
RECURSIVE NanMinSeq(_)
NanMinSeq(s) ==
    IF s = <<>> THEN NaN
    ELSE LET rest == NanMinSeq(Tail(s))
         IN IF IsNaN(Head(s)) THEN rest
            ELSE IF IsNaN(rest) THEN Head(s)
            ELSE IF RLt(rest, Head(s)) THEN rest ELSE Head(s)

RECURSIVE NanMaxSeq(_)
NanMaxSeq(s) ==
    IF s = <<>> THEN NaN
    ELSE LET rest == NanMaxSeq(Tail(s))
         IN IF IsNaN(Head(s)) THEN rest
            ELSE IF IsNaN(rest) THEN Head(s)
            ELSE IF RGt(rest, Head(s)) THEN rest ELSE Head(s)

NanMin(w) == NanMinSeq(Flatten(w))
NanMax(w) == NanMaxSeq(Flatten(w))

\* lines 168-169: (patch - nanmin) / (nanmax - nanmin); 0/0 is NaN.
NormPatch(patch) ==
    LET lo == NanMin(patch)
        hi == NanMax(patch)
    IN MapWindow(patch, LAMBDA v : RDiv(RSub(v, lo), RSub(hi, lo)))

UbyteMax == 255

\* np.rint of a rational that is not negative: to the nearest integer, ties to even.
Rint(x) ==
    LET q == x.num \div x.den
        rem == x.num % x.den
    IN IF 2 * rem < x.den THEN q
       ELSE IF 2 * rem > x.den THEN q + 1
       ELSE IF q % 2 = 0 THEN q ELSE q + 1

\* line 171: img_as_ubyte(np.nan_to_num(norm_patch)): NaN becomes 0, a float
\* of [0, 1] becomes rint(255 * x).
ToUbyte(v) == Rint(RMul(NanToNum(v, 0), Rat(UbyteMax, 1)))

RECURSIVE SumSeq(_)
SumSeq(s) == IF s = <<>> THEN 0 ELSE Head(s) + SumSeq(Tail(s))

\* lines 173-182: the co-occurrence matrix at distance 1, angle 0 (each pixel
\* with its right neighbour), symmetric and normed, and its contrast
\* sum (i-j)^2 P(i,j); an image with no such pair has an all-zero matrix.
GlcmContrast(g) ==
    LET rows == NRows(g)
        cols == NCols(g)
        npairs == rows * (cols - 1)
        d(k) == LET r == ((k - 1) \div (cols - 1)) + 1
                    c == ((k - 1) % (cols - 1)) + 1
                IN (g[r][c] - g[r][c + 1]) * (g[r][c] - g[r][c + 1])
    IN IF npairs = 0 THEN Rat(0, 1)
       ELSE Rat(2 * SumSeq([k \in 1..npairs |-> d(k)]), 2 * npairs)

\* line 166: the patch cut from lee_filtered (the whole of the model's window)
Patch(w) == w

\* lines 166-182: no branch of the step raises.
Texture ==
    /\ rpc = "lee"
    /\ contrast' = GlcmContrast(MapWindow(NormPatch(Patch(lee_filtered)), ToUbyte))
    /\ rpc' = "textured"
    /\ UNCHANGED <<vh_window, sigma0_linear, sigma0_db_window, lee_filtered>>

\* Values of a filtered patch the texture step is applied to.
PatchSamples == {NaN, Rat(-40, 1), Rat(-20, 1), Rat(-25, 2), Rat(0, 1)}

\* The script at line 166: lee_filtered computed, the texture step next.
TextureInit ==
    /\ rpc = "lee"
    /\ vh_window = NoWindow
    /\ sigma0_linear = NoWindow
    /\ sigma0_db_window = NoWindow
    /\ lee_filtered \in WindowsOf(PatchSamples)
    /\ contrast = NaN

-----------------------------------------------------------------------------
(***************************************************************************)
(* preprocessing/Sentinel-2_Processing.py: NDVI, resampling of the scene   *)
(* classification, cloud masking.                                          *)
(***************************************************************************)
WindowSize == 4

\* Digital numbers of the two bands: ramps base + step * (position).
BandBases == {0, 1000}
BandSteps == {0, 250}

BandWindows ==
    { [r \in 1..WindowSize |-> [c \in 1..WindowSize |->
          base + step * ((r - 1) * WindowSize + (c - 1))]] :
      base \in BandBases, step \in BandSteps }

\* Scene classification codes drawn for the cells: cloud shadow, vegetation,
\* medium cloud, snow/ice.
ClassSamples == {3, 4, 8, 11}

SclWindows ==
    [1..(WindowSize \div 2) -> [1..(WindowSize \div 2) -> ClassSamples]]

\* Mutant of line 147: snow/ice (11) is not excluded.
ExcludedWithoutSnow == {3, 8, 9, 10}

\* line 147: [3, 8, 9, 10, 11]
ExcludedClasses == {3, 8, 9, 10, 11}

\* lines 95-96: band / 10000.0
Reflectance(dn) == Rat(dn, ScalingFactor)

\* line 103: (nir - red) / (nir + red + 1e-10).  The guard decides the value
\* where both bands are 0 (0 / 1e-10 = 0) and is below float32 resolution of
\* the quotient where they are not.
NdviValue(n, r) ==
    IF RAdd(n, r).num = 0 THEN RDiv(RSub(n, r), Rat(1, 1))
    ELSE RDiv(RSub(n, r), RAdd(n, r))

ComputeNdvi(n, r) ==
    [i \in 1..NRows(n) |-> [j \in 1..NCols(n) |-> NdviValue(n[i][j], r[i][j])]]

\* skimage resize, order 0: output index k (from 1) of an axis of length out
\* reads the input cell nearest to the centre of the output cell,
\* floor((k - 0.5) * inp / out + 0.5) counted from 0, kept inside the axis.
NearestIndex(k, inp, out) ==
    Min2(((2 * k - 1) * inp) \div (2 * out), inp - 1) + 1

\* lines 128-134: resize(scl, ndvi.shape, order=0, preserve_range=True)
Resize(w, rows, cols) ==
    [r \in 1..rows |-> [c \in 1..cols |->
        w[NearestIndex(r, NRows(w), rows)][NearestIndex(c, NCols(w), cols)]]]

\* line 147: np.isin(scl_resampled, [3, 8, 9, 10, 11])
CloudMask(code) == code \in ExcludedClasses

\* line 150: np.where(cloud_mask, np.nan, ndvi)
MaskNdvi(index, codes) ==
    [r \in 1..NRows(index) |-> [c \in 1..NCols(index) |->
        IF CloudMask(codes[r][c]) THEN NaN ELSE index[r][c]]]

OpticalIdle ==
    /\ opc = "idle"
    /\ red = NoWindow
    /\ nir = NoWindow
    /\ scl = NoWindow
    /\ ndvi = NoWindow
    /\ scl_resampled = NoWindow
    /\ ndvi_masked = NoWindow

\* lines 81-92, 121-125: the three windows read from the product.
OpticalInit ==
    /\ opc = "read"
    /\ red \in BandWindows
    /\ nir \in BandWindows
    /\ scl \in SclWindows
    /\ ndvi = NoWindow
    /\ scl_resampled = NoWindow
    /\ ndvi_masked = NoWindow

\* lines 95-96
ScaleBands ==
    /\ opc = "read"
    /\ red' = MapWindow(red, Reflectance)
    /\ nir' = MapWindow(nir, Reflectance)
    /\ opc' = "scaled"
    /\ UNCHANGED <<scl, ndvi, scl_resampled, ndvi_masked>>

\* line 103
Ndvi ==
    /\ opc = "scaled"
    /\ ndvi' = ComputeNdvi(nir, red)
    /\ opc' = "ndvi"
    /\ UNCHANGED <<red, nir, scl, scl_resampled, ndvi_masked>>

\* lines 128-134
ResampleScl ==
    /\ opc = "ndvi"
    /\ scl_resampled' = Resize(scl, NRows(ndvi), NCols(ndvi))
    /\ opc' = "resampled"
    /\ UNCHANGED <<red, nir, scl, ndvi, ndvi_masked>>

\* lines 147-150
ApplyCloudMask ==
    /\ opc = "resampled"
    /\ ndvi_masked' = MaskNdvi(ndvi, scl_resampled)
    /\ opc' = "masked"
    /\ UNCHANGED <<red, nir, scl, ndvi, scl_resampled>>

-----------------------------------------------------------------------------
(***************************************************************************)
(* main.py: the ingestion script is run to its end, the Sentinel-1 script  *)
(* is spawned in the background, the Sentinel-2 script is run to its end,  *)
(* then the Sentinel-1 script is joined.  An exception raised in main()    *)
(* is not caught: it ends main().                                          *)
(***************************************************************************)
Scripts == {"ingestion", "s1", "s2"}

\* returncode of a preprocessing script: 0, or 1 (uncaught exception)
ExitCodes == {0, 1}

NotStarted == [st |-> "not_started", rc |-> 0]
Running == [st |-> "running", rc |-> 0]
Exited(rc) == [st |-> "exited", rc |-> rc]

MainIdle ==
    /\ mpc = "idle"
    /\ proc = [p \in Scripts |-> NotStarted]
    /\ reported = {}
    /\ success = {}

MainInit ==
    /\ mpc = "start"
    /\ proc = [p \in Scripts |-> NotStarted]
    /\ reported = {}
    /\ success = {}

\* Mutant of lines 19-22: the returncode is not looked at, the run goes on.
AfterExitIgnoringCode(p, next) ==
    /\ success' = success \cup {p}
    /\ mpc' = next
    /\ UNCHANGED reported

\* lines 19-22 (run_script) and 42-44 (main): what follows a child's end.
\* A non-zero returncode raises, which ends main(); 0 prints the completion.
AfterExit(p, next) ==
    IF proc[p].rc # 0
    THEN /\ reported' = reported \cup {p}
         /\ mpc' = "raised"
         /\ UNCHANGED success
    ELSE /\ success' = success \cup {p}
         /\ mpc' = next
         /\ UNCHANGED reported

\* line 31, run_script line 17: subprocess.run starts the ingestion script.
StartIngestion ==
    /\ mpc = "start"
    /\ proc' = [proc EXCEPT !["ingestion"] = Running]
    /\ mpc' = "wait_ingestion"
    /\ UNCHANGED <<reported, success>>

\* line 31, run_script lines 17-22: subprocess.run returns.
IngestionReturned ==
    /\ mpc = "wait_ingestion"
    /\ proc["ingestion"].st = "exited"
    /\ AfterExit("ingestion", "spawn_s1")
    /\ UNCHANGED proc

\* line 35: subprocess.Popen, which does not wait.
SpawnS1 ==
    /\ mpc = "spawn_s1"
    /\ proc' = [proc EXCEPT !["s1"] = Running]
    /\ mpc' = "run_s2"
    /\ UNCHANGED <<reported, success>>

\* line 38, run_script line 17: subprocess.run starts the Sentinel-2 script.
StartS2 ==
    /\ mpc = "run_s2"
    /\ proc' = [proc EXCEPT !["s2"] = Running]
    /\ mpc' = "wait_s2"
    /\ UNCHANGED <<reported, success>>

\* line 38, run_script lines 17-22: subprocess.run returns.
S2Returned ==
    /\ mpc = "wait_s2"
    /\ proc["s2"].st = "exited"
    /\ AfterExit("s2", "wait_s1")
    /\ UNCHANGED proc

\* lines 41-46: p_s1.wait() returns.
S1Joined ==
    /\ mpc = "wait_s1"
    /\ proc["s1"].st = "exited"
    /\ AfterExit("s1", "done")
    /\ UNCHANGED proc

\* The ingestion script at work, as a child of main().
IngestionRuns ==
    /\ proc["ingestion"].st = "running"
    /\ IngestNext
    /\ UNCHANGED mainVars

\* The ingestion script ends: returncode 1 after the uncaught exception of
\* line 140, 0 after the last line.  Its variables end with it.
IngestionExit ==
    /\ proc["ingestion"].st = "running"
    /\ ipc \in {"failed", "done"}
    /\ proc' = [proc EXCEPT !["ingestion"] = Exited(IF ipc = "done" THEN 0 ELSE 1)]
    /\ ipc' = "idle"
    /\ data_s1' = <<>>
    /\ data_s2' = <<>>
    /\ li' = 1
    /\ lj' = 1
    /\ overlap' = NaN
    /\ best_overlap' = Rat(0, 1)
    /\ best_pair' = <<>>
    /\ scanned' = {}
    /\ UNCHANGED <<mpc, reported, success>>

\* A preprocessing script ends, with any returncode, whatever main() is doing
\* (a child outlives a main() that has raised).
ChildExit ==
    \E p \in {"s1", "s2"}, rc \in ExitCodes :
        /\ proc[p].st = "running"
        /\ proc' = [proc EXCEPT ![p] = Exited(rc)]
        /\ UNCHANGED <<mpc, reported, success, ingestVars>>

-----------------------------------------------------------------------------
SelectNext ==
    \/ ScanPair /\ UNCHANGED <<radarVars, opticalVars, mainVars>>
    \/ CheckBestPair /\ UNCHANGED <<radarVars, opticalVars, mainVars>>
    \/ Download /\ UNCHANGED <<radarVars, opticalVars, mainVars>>

SelectInit == IngestInit /\ RadarIdle /\ OpticalIdle /\ MainIdle

SpecSelect == SelectInit /\ [][SelectNext]_vars

RadarPipelineNext ==
    \/ Calibrate /\ UNCHANGED <<ingestVars, opticalVars, mainVars>>
    \/ ConvertToDb /\ UNCHANGED <<ingestVars, opticalVars, mainVars>>
    \/ MaskRange /\ UNCHANGED <<ingestVars, opticalVars, mainVars>>
    \/ ApplyLee /\ UNCHANGED <<ingestVars, opticalVars, mainVars>>

RadarPipelineInit == IngestIdle /\ RadarInit /\ OpticalIdle /\ MainIdle

SpecRadar == RadarPipelineInit /\ [][RadarPipelineNext]_vars

TextureNext == Texture /\ UNCHANGED <<ingestVars, opticalVars, mainVars>>

TextureStepInit == IngestIdle /\ TextureInit /\ OpticalIdle /\ MainIdle

SpecTexture == TextureStepInit /\ [][TextureNext]_vars

OpticalPipelineNext ==
    \/ ScaleBands /\ UNCHANGED <<ingestVars, radarVars, mainVars>>
    \/ Ndvi /\ UNCHANGED <<ingestVars, radarVars, mainVars>>
    \/ ResampleScl /\ UNCHANGED <<ingestVars, radarVars, mainVars>>
    \/ ApplyCloudMask /\ UNCHANGED <<ingestVars, radarVars, mainVars>>

OpticalPipelineInit == IngestIdle /\ RadarIdle /\ OpticalInit /\ MainIdle

SpecOptical == OpticalPipelineInit /\ [][OpticalPipelineNext]_vars

OrchestratorNext ==
    \/ StartIngestion /\ UNCHANGED <<ingestVars, radarVars, opticalVars>>
    \/ IngestionReturned /\ UNCHANGED <<ingestVars, radarVars, opticalVars>>
    \/ SpawnS1 /\ UNCHANGED <<ingestVars, radarVars, opticalVars>>
    \/ StartS2 /\ UNCHANGED <<ingestVars, radarVars, opticalVars>>
    \/ S2Returned /\ UNCHANGED <<ingestVars, radarVars, opticalVars>>
    \/ S1Joined /\ UNCHANGED <<ingestVars, radarVars, opticalVars>>
    \/ IngestionRuns /\ UNCHANGED <<radarVars, opticalVars>>
    \/ IngestionExit /\ UNCHANGED <<radarVars, opticalVars>>
    \/ ChildExit /\ UNCHANGED <<radarVars, opticalVars>>

OrchestratorInit == IngestInit /\ RadarIdle /\ OpticalIdle /\ MainInit

SpecMain == OrchestratorInit /\ [][OrchestratorNext]_vars

-----------------------------------------------------------------------------
(***************************************************************************)
(* Pair selection (SpecSelect).                                            *)
(***************************************************************************)
AllPairs == (1..Len(data_s1)) \X (1..Len(data_s2))

\* The score of combination p = <<i, j>>; 0 for an empty intersection.
ScoreOf(p) == OverlapPct(data_s1[p[1]], data_s2[p[2]])

PositiveArea(p) == Intersection(data_s1[p[1]], data_s2[p[2]]).area > 0

Selected == ipc \in {"selected", "done"}

\* p comes before q in the order of the loops (outer radar, inner optical).
Before(p, q) == p[1] < q[1] \/ (p[1] = q[1] /\ p[2] < q[2])

\* b lies inside a.
Contains(a, b) == a.x1 <= b.x1 /\ a.y1 <= b.y1 /\ b.x2 <= a.x2 /\ b.y2 <= a.y2

\* C1: maximum property.  At every point of the scan best_overlap is at least
\* the score of every combination scanned so far; when the loop has finished
\* with a selected pair, every one of the n*m combinations has been scanned
\* and best_overlap is the score of the selected pair.
C1_MaximumProperty ==
    /\ \A p \in scanned : RLe(ScoreOf(p), best_overlap)
    /\ Selected =>
         /\ scanned = AllPairs
         /\ best_pair \in AllPairs
         /\ REq(best_overlap, ScoreOf(best_pair))

\* C1 witness: a finished 2x2 scan whose last combination is the selected one
\* and beats an earlier one with a positive score.
C1_Witness ==
    /\ ipc = "selected"
    /\ Len(data_s1) = 2 /\ Len(data_s2) = 2
    /\ best_pair = <<2, 2>>
    /\ \E p \in AllPairs : PositiveArea(p) /\ RLt(ScoreOf(p), best_overlap)

\* C2: the selection fails, with best_pair still None, exactly when no
\* combination has a positive intersection area (empty lists and footprints
\* that only touch included); a selected pair has a positive intersection.
C2_NoOverlapFound ==
    /\ ipc = "failed" =>
         /\ best_pair = <<>>
         /\ \A p \in AllPairs : ~PositiveArea(p)
    /\ Selected =>
         /\ best_pair \in AllPairs
         /\ PositiveArea(best_pair)
    /\ best_pair # <<>> => PositiveArea(best_pair)

\* C2 witness: the selection has failed on candidates that touch (an
\* intersection that is not empty, of area zero).
C2_Witness ==
    /\ ipc = "failed"
    /\ \E p \in AllPairs :
         /\ ~Intersection(data_s1[p[1]], data_s2[p[2]]).is_empty
         /\ ~PositiveArea(p)

\* C3: tie-break.  No combination scanned before the current best pair has the
\* best score: among the combinations that share the maximum the first in
\* loop order is the one kept, and it is the one selected in the end.
C3_FirstOfTies ==
    best_pair # <<>> =>
        \A p \in scanned : REq(ScoreOf(p), best_overlap) => ~Before(p, best_pair)

\* C3 witness: a pair is selected while a later combination has the same score.
C3_Witness ==
    /\ ipc = "selected"
    /\ \E p \in AllPairs :
         /\ Before(best_pair, p)
         /\ data_s1[p[1]] # data_s1[best_pair[1]]
         /\ REq(ScoreOf(p), best_overlap)

\* C4: the score of (radar a, optical b) is area(a /\ b) / area(b) * 100: it
\* lies in [0, 100], is 0 for disjoint footprints, 100 when b lies inside a,
\* 50 when the intersection is half of b; the score the scan last computed
\* is one of these.
C4_OverlapScore ==
    /\ \A p \in AllPairs :
         LET a == data_s1[p[1]]
             b == data_s2[p[2]]
             o == ScoreOf(p)
         IN /\ RLe(Rat(0, 1), o) /\ RLe(o, Rat(100, 1))
            /\ o.num * Area(b) = 100 * Intersection(a, b).area * o.den
            /\ Intersection(a, b).is_empty => REq(o, Rat(0, 1))
            /\ Contains(a, b) => REq(o, Rat(100, 1))
            /\ 2 * Intersection(a, b).area = Area(b) => REq(o, Rat(50, 1))
    /\ ~IsNaN(overlap) => \E p \in scanned : REq(overlap, ScoreOf(p))

\* C4 witness: the two 10x10 footprints overlapping on half their area are the
\* only candidates; the score computed is 50 and they are selected.
C4_Witness ==
    /\ ipc = "selected"
    /\ data_s1 = <<Box(0, 0, 10, 10)>>
    /\ data_s2 = <<Box(5, 0, 15, 10)>>
    /\ REq(overlap, Rat(50, 1))
    /\ best_pair = <<1, 1>>

-----------------------------------------------------------------------------
(***************************************************************************)
(* Radar pipeline (SpecRadar) and texture step (SpecTexture).              *)
(***************************************************************************)
Cells(w) == (1..NRows(w)) \X (1..NCols(w))

At(w, p) == w[p[1]][p[2]]

\* C5: after calibration, decibel conversion and masking, every element of
\* the decibel window is NaN or a value v with -40 <= v <= 5; the Lee filter
\* leaves that window as it is.
C5_MaskedRange ==
    rpc \in {"masked", "lee"} =>
        \A p \in Cells(sigma0_db_window) :
            LET v == At(sigma0_db_window, p)
            IN IsNaN(v) \/ (RLe(Rat(-40, 1), v) /\ RLe(v, Rat(5, 1)))

\* C5 witness: a masked window in which a value above 5 dB (digital number
\* 100000, 10 dB) and a value below -40 dB (digital number 0, -100 dB) have
\* become NaN and the value -40 dB (digital number 1) has been kept.
C5_Witness ==
    /\ rpc = "masked"
    /\ \E p, q, k \in Cells(vh_window) :
         /\ At(vh_window, p) = 100000 /\ IsNaN(At(sigma0_db_window, p))
         /\ At(vh_window, q) = 0 /\ IsNaN(At(sigma0_db_window, q))
         /\ At(vh_window, k) = 1 /\ REq(At(sigma0_db_window, k), Rat(-40, 1))

\* The masked decibel window is constant and has no NaN.
UniformWindow(w) ==
    \A p, q \in Cells(w) : ~IsNaN(At(w, p)) /\ REq(At(w, p), At(w, q))

\* C6 (as claimed): the Lee filter returns a constant window with no no-data
\* unchanged; a 5x5 window of digital number 10000 gives 0.0 dB everywhere,
\* unmasked, and a Lee-filter output of 0.0 dB everywhere.
C6_UniformUnchanged ==
    /\ (rpc = "lee" /\ UniformWindow(sigma0_db_window)) =>
          \A p \in Cells(lee_filtered) :
              REq(At(lee_filtered, p), At(sigma0_db_window, p))
    /\ (rpc = "lee" /\ vh_window = ScenarioWindow) =>
          \A p \in Cells(lee_filtered) :
              /\ REq(At(sigma0_db_window, p), Rat(0, 1))
              /\ REq(At(lee_filtered, p), Rat(0, 1))

\* C7 (as claimed): the filtered raster is NaN at exactly the positions where
\* the masked input is NaN.
C7_NoDataPreserved ==
    rpc = "lee" =>
        \A p \in Cells(lee_filtered) :
            IsNaN(At(lee_filtered, p)) <=> IsNaN(At(sigma0_db_window, p))

\* The patch has zero dynamic range: max == min, or every value is NaN.
DegenerateWindow(w) ==
    \/ IsNaN(NanMax(w))
    \/ REq(NanMax(w), NanMin(w))

\* C9 (as claimed): on a patch of zero dynamic range the texture step fails
\* instead of producing a contrast value.
C9_DegenerateFails ==
    rpc = "textured" => ~DegenerateWindow(Patch(lee_filtered))

-----------------------------------------------------------------------------
(***************************************************************************)
(* Optical pipeline (SpecOptical).                                         *)
(***************************************************************************)
\* Input cell i (from 1) of an axis of length inp holds the centre of output
\* cell k of an axis of length out.
HoldsCentre(i, k, inp, out) ==
    2 * out * (i - 1) <= (2 * k - 1) * inp /\ (2 * k - 1) * inp < 2 * out * i

\* C8: once the classification has been resampled (each output position
\* takes the code of the input cell that holds its centre) and the mask
\* applied, a position of the masked raster is NaN if its resampled code is
\* in {3, 8, 9, 10, 11} and the unmasked index value otherwise; the unmasked
\* raster is still the index computed from the two bands, and has no NaN.
C8_CloudMask ==
    /\ opc \in {"resampled", "masked"} =>
         \A p \in Cells(scl_resampled) :
             \E i \in 1..NRows(scl), j \in 1..NCols(scl) :
                 /\ HoldsCentre(i, p[1], NRows(scl), NRows(ndvi))
                 /\ HoldsCentre(j, p[2], NCols(scl), NCols(ndvi))
                 /\ At(scl_resampled, p) = scl[i][j]
    /\ opc = "masked" =>
         /\ Cells(ndvi_masked) = Cells(ndvi)
         /\ \A p \in Cells(ndvi) :
              /\ ~IsNaN(At(ndvi, p))
              /\ At(ndvi_masked, p) =
                   IF At(scl_resampled, p) \in {3, 8, 9, 10, 11}
                   THEN NaN ELSE At(ndvi, p)
         /\ ndvi = ComputeNdvi(nir, red)
         /\ (\E k \in {3, 8, 9, 10, 11} : \A p \in Cells(scl) : At(scl, p) = k)
              => \A p \in Cells(ndvi_masked) : IsNaN(At(ndvi_masked, p))
         /\ (\E k \in ClassSamples \ {3, 8, 9, 10, 11} : \A p \in Cells(scl) : At(scl, p) = k)
              => ndvi_masked = ndvi

\* C8 witness: a masked raster with a snow/ice position that is NaN and a
\* vegetation position that keeps a non-zero index value.
C8_Witness ==
    /\ opc = "masked"
    /\ \E p, q \in Cells(ndvi) :
         /\ At(scl_resampled, p) = 11 /\ IsNaN(At(ndvi_masked, p))
         /\ At(scl_resampled, q) = 4
         /\ At(ndvi_masked, q) = At(ndvi, q)
         /\ At(ndvi, q).num # 0

-----------------------------------------------------------------------------
(***************************************************************************)
(* Orchestrator (SpecMain).                                                *)
(***************************************************************************)
MainFinished == mpc \in {"done", "raised"}

BothStarted == proc["s1"].st # "not_started" /\ proc["s2"].st # "not_started"

\* C10 (as claimed): when main() has finished a run in which both pipelines
\* were started, both have terminated, the failure of each one that exited
\* with a non-zero code has been raised, and success is declared only after
\* both exited with code 0.
C10_BothFailuresReported ==
    /\ (MainFinished /\ BothStarted) =>
         \A p \in {"s1", "s2"} :
             /\ proc[p].st = "exited"
             /\ proc[p].rc # 0 => p \in reported
    /\ mpc = "done" =>
         \A p \in {"s1", "s2"} : proc[p].st = "exited" /\ proc[p].rc = 0

NeitherStarted == proc["s1"].st = "not_started" /\ proc["s2"].st = "not_started"

\* C11: selection is a hard prerequisite.  A raster pipeline that has been
\* started was started after the ingestion script ended with returncode 0
\* and main() saw it; while the ingestion script is at work or has not been
\* started, and once it has failed (the NoOverlap exception of line 140
\* gives returncode 1), neither pipeline has been started, and after the
\* failure main() is waiting for the script or has raised for it.
C11_SelectionPrerequisite ==
    /\ ~NeitherStarted =>
         /\ proc["ingestion"] = Exited(0)
         /\ "ingestion" \in success
    /\ proc["ingestion"].st # "exited" => NeitherStarted
    /\ ipc = "failed" => NeitherStarted /\ proc["ingestion"].st # "exited"
    /\ (proc["ingestion"].st = "exited" /\ proc["ingestion"].rc # 0) =>
         /\ NeitherStarted
         /\ mpc \in {"wait_ingestion", "raised"}
         /\ mpc = "raised" => reported = {"ingestion"}

\* C11 witness: the selection found no overlapping pair, the ingestion script
\* ended with returncode 1, main() has raised for it and no pipeline runs.
C11_Witness ==
    /\ mpc = "raised"
    /\ proc["ingestion"] = Exited(1)
    /\ reported = {"ingestion"}
    /\ NeitherStarted

=============================================================================
